---------------------------- MODULE Spec2Model ----------------------------
(***************************************************************************)
(* A model of TcmallocSlab (tcmalloc/internal/percpu_tcmalloc.cc): the     *)
(* per-CPU slab, its header state machine, the control operations and the  *)
(* stop/fence protocol that excludes fast-path users.                      *)
(*                                                                         *)
(* The control operations and CacheCpuSlabSlow are translated from         *)
(* percpu_tcmalloc.cc.  The push/pop fast path, the layout functions       *)
(* (CpuMemoryStart, GetHeader), the scoped stop helper and the platform    *)
(* primitives (RSEQ commit, fences, preemption) live in headers that are   *)
(* not part of the sources; they are modelled from the specification.      *)
(***************************************************************************)
EXTENDS Integers, Sequences, FiniteSets, TLC

(***************************************************************************)
(* Bounds of the model.                                                    *)
(***************************************************************************)
NumCPUs == 2
NumThreads == 2
NumControl == 2
MaxPtr == 2
\* How many times the caller resizes the slab.
MaxResizes == 2
\* How many times the caller calls Init.
MaxInits == 2

\* The longest buffer given to a Printer, and how many times it is printed to.
MaxLength == 4
MaxPrintfs == 4

\* num_classes passed to Init; size class 0 is unused.
NumClasses == 3

(***************************************************************************)
(* Program constants.                                                      *)
(***************************************************************************)
\* sizeof(Header): one 64-bit word per header.
HeaderBytes == 8
\* sizeof(void*): one element slot.
PtrBytes == 8
\* TCMALLOC_CACHED_SLABS_MASK: the low tag bit of the per-thread word.
TCMALLOC_CACHED_SLABS_MASK == 1

CPUs == 0 .. (NumCPUs - 1)
Threads == 1 .. NumThreads
Control == 1 .. NumControl
Classes == 1 .. (NumClasses - 1)
Ptrs == 1 .. MaxPtr
Null == 0

RECURSIVE Pow2(_)
Pow2(n) == IF n = 0 THEN 1 ELSE 2 * Pow2(n - 1)

\* static_cast<uint16_t>(x)
U16(x) == x % 65536

\* std::min<uint16_t>(a, b): both arguments are converted to uint16_t first.
MinU16(a, b) == IF U16(a) < U16(b) THEN U16(a) ELSE U16(b)

Min(a, b) == IF a < b THEN a ELSE b

(***************************************************************************)
(* The slab regions the caller alternates between: a (base, shift) pair.   *)
(* ResizeSlabs requires the new shift to differ from the old one.          *)
(***************************************************************************)
Regions == { [slabs |-> 4096, shift |-> 7], [slabs |-> 8192, shift |-> 8] }
InitialRegion == [slabs |-> 4096, shift |-> 7]

\* The caller's capacity function for a slab of the given shift.
Capacity(shift) ==
    IF shift = 7 THEN [k \in Classes |-> IF k = 1 THEN 2 ELSE 1]
                 ELSE [k \in Classes |-> IF k = 1 THEN 1 ELSE 2]

\* The caller's max_capacity function for GrowOtherCache on class k: the
\* capacity the class was laid out with.
MaxCapacityFn(k) == [s \in {7, 8} |-> Capacity(s)[k]]

\* len arguments of GrowOtherCache / ShrinkOtherCache (size_t).
Lens == {0, 1, 2, 3, 65536, 65538}

(***************************************************************************)
(* Layout and addressing.                                                  *)
(***************************************************************************)
CpuMemoryStart(slabs, shift, cpu) == slabs + cpu * Pow2(shift)

\* Address of the header of (cpu, size_class).
GetHeader(slabs, shift, cpu, size_class) ==
    CpuMemoryStart(slabs, shift, cpu) + size_class * HeaderBytes

\* Address of element slot number idx of the cpu whose slab starts at start.
SlotAt(start, idx) == start + idx * PtrBytes

SlotsPerCpu(shift) == Pow2(shift) \div PtrBytes

HeaderAddrs ==
    { GetHeader(r.slabs, r.shift, c, k) : r \in Regions, c \in CPUs, k \in Classes }

SlotAddrs ==
    UNION { { SlotAt(CpuMemoryStart(r.slabs, r.shift, c), i) :
                i \in NumClasses .. (SlotsPerCpu(r.shift) - 1) } :
            r \in Regions, c \in CPUs }

ZeroHeader == [begin |-> 0, current |-> 0, end |-> 0]

VARIABLES
    slabs_and_shift,   \* the published (base, shift)
    stopped,           \* stopped_[cpu]
    hdrs,              \* header words of every region, by address
    slots,             \* element slots of every region, by address
    th,                \* the fast-path threads
    ctl,               \* the control threads
    populated,         \* the caller's record of the CPUs InitCpu has run on
    central,           \* pointers in the central free list: how often each
    app,               \* pointers allocated to the application
    handler,           \* the drain handler's calls in the drain under way
    gen,               \* history: how many times slabs_and_shift_ was published
    crashed,           \* a TC_CHECK failed or Crash() was called
    num_classes_,      \* num_classes_: 0 until Init has run
    init_call,         \* the call of Init: its arguments and where it ended
    printer            \* the Printer of the crash report and its buffer

vars == <<slabs_and_shift, stopped, hdrs, slots, th, ctl, populated, central, app,
          handler, gen, crashed, num_classes_, init_call, printer>>


(***************************************************************************)
(* Initial state: Init() has run on a zero-filled region.  Every stopped   *)
(* flag is false, no CPU has been initialised, and every pointer is in the *)
(* central free list.                                                      *)
(***************************************************************************)
(***************************************************************************)
(* Printer: formatted output into a caller's buffer of length bytes.  mem  *)
(* is the buffer followed by one byte that is not part of it; pos is how   *)
(* far buf_ has moved, left is left_ and required is what SpaceRequired()  *)
(* returns.  asked is the history of every character requested.            *)
(***************************************************************************)
\* A byte nobody has written.
Unwritten == "?"

\* The terminating '\0'.
Nul == "NUL"

\* The strings that printf is asked to format.
Chunks == { <<>>, <<"a">>, <<"b", "c">>, <<"d", "e", "f">> }

\* No Printer has been constructed.
NoPrinter ==
    [mem |-> <<>>, length |-> 0, pos |-> 0, left |-> 0, required |-> 0,
     asked |-> <<>>, calls |-> 0]

\* Printer(buf, length) over a new buffer.
NewPrinter(length) ==
    [mem |-> [i \in 1 .. (length + 1) |-> IF i = 1 THEN Nul ELSE Unwritten],
     length |-> length, pos |-> 0, left |-> length, required |-> 0,
     asked |-> <<>>, calls |-> 0]

\* A printf that leaves no room for the terminating '\0'.
FittingWithoutNul(r, left) == Min(r, left)

\* How many of r characters are written when left bytes are left: the
\* terminating '\0' takes one.
Fitting(r, left) == Min(r, left - 1)

\* printf("%s", s) on Printer p.
PrinterPrintf(p, s) ==
    LET r == Len(s)
        n == Fitting(r, p.left)
        written == [i \in DOMAIN p.mem |->
                      IF p.pos < i /\ i <= p.pos + n THEN s[i - p.pos]
                      ELSE IF i = p.pos + n + 1 THEN Nul
                      ELSE p.mem[i]]
    IN  [mem |-> IF p.left = 0 THEN p.mem ELSE written,
         length |-> p.length,
         pos |-> IF r < p.left THEN p.pos + r ELSE p.pos,
         left |-> IF r < p.left THEN p.left - r ELSE 0,
         required |-> p.required + r,
         asked |-> p.asked \o s,
         calls |-> p.calls + 1]

IdleThread(c) ==
    [cpu |-> c, tcmalloc_slabs |-> 0, pc |-> "idle", kind |-> "none", k |-> 0,
     ptr |-> Null, lcpu |-> 0, lss |-> InitialRegion, lcur |-> 0, lgen |-> 0]

IdleControl ==
    [pc |-> "idle", op |-> "none", cpu |-> 0, old |-> InitialRegion,
     new |-> InitialRegion, owned |-> {}]

\* The arguments Init was called with.
InitialArgs ==
    [num_classes |-> NumClasses, capacity |-> Capacity(InitialRegion.shift),
     slabs |-> InitialRegion.slabs, shift |-> InitialRegion.shift]

\* The call of Init that has returned, in a build with NDEBUG set (nd) or not.
InitialCall(nd) ==
    [pc |-> "returned", calls |-> 1, ndebug |-> nd,
     num_classes |-> InitialArgs.num_classes, capacity |-> InitialArgs.capacity,
     slabs |-> InitialArgs.slabs, shift |-> InitialArgs.shift]

Constructed ==
    /\ slabs_and_shift = InitialRegion
    /\ stopped = [c \in CPUs |-> FALSE]
    /\ hdrs = [a \in HeaderAddrs |-> ZeroHeader]
    /\ slots = [a \in SlotAddrs |-> 0]
    /\ th = [t \in Threads |-> IdleThread(0)]
    /\ ctl = [x \in Control |-> IdleControl]
    /\ populated = {}
    /\ central = [p \in Ptrs \cup {Null} |-> IF p = Null THEN 0 ELSE 1]
    /\ app = {}
    /\ handler = <<>>
    /\ gen = 0
    /\ crashed = FALSE
    /\ num_classes_ = NumClasses

Init == Constructed /\ init_call = InitialCall(TRUE) /\ printer = NoPrinter

\* The same state in either build.
InitAnyBuild ==
    /\ Constructed
    /\ \E nd \in BOOLEAN : init_call = InitialCall(nd)
    /\ printer = NoPrinter

\* The state in which a Printer over a buffer of some length has been made.
InitPrinter ==
    /\ Constructed
    /\ init_call = InitialCall(TRUE)
    /\ \E length \in 1 .. MaxLength : printer = NewPrinter(length)

\* printer.printf("%s", s).
Printf(s) ==
    /\ printer.calls < MaxPrintfs
    /\ printer' = PrinterPrintf(printer, s)
    /\ UNCHANGED <<slabs_and_shift, stopped, hdrs, slots, th, ctl, populated, central,
                   app, handler, gen, crashed, num_classes_, init_call>>

(***************************************************************************)
(* Init, from the state before it: num_classes_ is 0 and the array that    *)
(* stopped_ will point to is not yet written.  The arguments of the call   *)
(* are in init_call; init_call.pc is "call" until Init has run and then    *)
(* the place where it ended: "returned", or the failed check.              *)
(***************************************************************************)
\* Values of capacity(size_class) (size_t).
CapacityValues == {0, 1, 2, 4, 65535, 65536}

\* Values of shift.
InitShifts == {4, 6, 7, 20}

\* The arguments of a call of Init.
InitArgs ==
    [num_classes : {NumClasses}, capacity : [Classes -> CapacityValues],
     slabs : {InitialRegion.slabs}, shift : InitShifts]

\* An Init that reserves no slot for the prefetch.
NumPointersNoPrefetch(cap) == cap

\* num_pointers = cap + 1: one extra element for prefetch.
NumPointers(cap) == cap + 1

\* The loop of Init from class st.size_class on, st.consumed_bytes being the
\* bytes counted so far: where Init ends.
RECURSIVE InitLoop(_, _, _, _)
InitLoop(num_classes, capacity, shift, st) ==
    IF st.size_class >= num_classes
    THEN "returned"
    ELSE
      LET cap == capacity[st.size_class]
          consumed_bytes == st.consumed_bytes + NumPointers(cap) * PtrBytes
      IN  IF U16(cap) # cap
          THEN "TC_CHECK_EQ"
          ELSE IF cap = 0
          THEN InitLoop(num_classes, capacity, shift,
                        [st EXCEPT !.size_class = @ + 1])
          ELSE IF consumed_bytes > Pow2(shift)
          THEN "Crash"
          ELSE InitLoop(num_classes, capacity, shift,
                        [size_class |-> st.size_class + 1,
                         consumed_bytes |-> consumed_bytes])

\* consumed_bytes of Init when it returns: the headers and, for each class
\* of non-zero capacity from size_class on, num_pointers pointers.
RECURSIVE InitPointerBytes(_, _, _)
InitPointerBytes(num_classes, capacity, size_class) ==
    IF size_class >= num_classes
    THEN 0
    ELSE (IF capacity[size_class] = 0
          THEN 0
          ELSE NumPointers(capacity[size_class]) * PtrBytes)
         + InitPointerBytes(num_classes, capacity, size_class + 1)

InitConsumedBytes(num_classes, capacity) ==
    num_classes * HeaderBytes + InitPointerBytes(num_classes, capacity, 1)

\* The state before the first Init.
InitBefore ==
    /\ slabs_and_shift = [slabs |-> 0, shift |-> 0]
    /\ stopped \in [CPUs -> BOOLEAN]
    /\ hdrs = [a \in HeaderAddrs |-> ZeroHeader]
    /\ slots = [a \in SlotAddrs |-> 0]
    /\ th = [t \in Threads |-> IdleThread(0)]
    /\ ctl = [x \in Control |-> IdleControl]
    /\ populated = {}
    /\ central = [p \in Ptrs \cup {Null} |-> IF p = Null THEN 0 ELSE 1]
    /\ app = {}
    /\ handler = <<>>
    /\ gen = 0
    /\ crashed = FALSE
    /\ num_classes_ = 0
    /\ printer = NoPrinter
    /\ \E a \in InitArgs, nd \in BOOLEAN :
           init_call = [pc |-> "call", calls |-> 1, ndebug |-> nd,
                        num_classes |-> a.num_classes, capacity |-> a.capacity,
                        slabs |-> a.slabs, shift |-> a.shift]

\* The ASSERT at the head of Init; it is compiled in when NDEBUG is not set.
InitAssert == num_classes_ = 0 /\ init_call.num_classes # 0

\* Init(num_classes, alloc, slabs, capacity, shift).
InitCall ==
    /\ ~crashed
    /\ init_call.pc = "call"
    /\ IF ~init_call.ndebug /\ ~InitAssert
       THEN /\ crashed' = TRUE
            /\ init_call' = [init_call EXCEPT !.pc = "ASSERT"]
            /\ UNCHANGED <<num_classes_, stopped, slabs_and_shift>>
       ELSE LET out == InitLoop(init_call.num_classes, init_call.capacity,
                                init_call.shift,
                                [size_class |-> 1,
                                 consumed_bytes |-> init_call.num_classes * HeaderBytes])
            IN  /\ num_classes_' = init_call.num_classes
                /\ stopped' = [c \in CPUs |-> FALSE]
                /\ slabs_and_shift' = [slabs |-> init_call.slabs, shift |-> init_call.shift]
                /\ crashed' = (out # "returned")
                /\ init_call' = [init_call EXCEPT !.pc = out]
    /\ UNCHANGED <<hdrs, slots, th, ctl, populated, central, app, handler, gen, printer>>

\* The caller calls Init once more, with arguments a.
InitAgain(a) ==
    /\ ~crashed
    /\ init_call.pc = "returned"
    /\ init_call.calls < MaxInits
    /\ \A x \in Control : ctl[x].pc = "idle"
    /\ init_call' = [pc |-> "call", calls |-> init_call.calls + 1,
                     ndebug |-> init_call.ndebug,
                     num_classes |-> a.num_classes, capacity |-> a.capacity,
                     slabs |-> a.slabs, shift |-> a.shift]
    /\ UNCHANGED <<slabs_and_shift, stopped, hdrs, slots, th, ctl, populated, central,
                   app, handler, gen, crashed, num_classes_, printer>>

(***************************************************************************)
(* Platform: preemption, migration and fences.  A thread that is taken off *)
(* its CPU has its cached word overwritten by the kernel (the cached bit   *)
(* is cleared) and an RSEQ section it was in restarts from its beginning.  *)
(***************************************************************************)
Abort(r) ==
    [r EXCEPT !.tcmalloc_slabs = 0,
              !.pc = IF r.pc = "commit" THEN "start" ELSE r.pc,
              !.lcur = 0]

\* Thread t runs one step on its CPU and ends in record r: every other thread
\* of that CPU is not running, so it has been preempted.
RunOn(t, r) ==
    [u \in Threads |->
        IF u = t THEN r
        ELSE IF th[u].cpu = th[t].cpu THEN Abort(th[u]) ELSE th[u]]

\* FenceCpu(cpu): every RSEQ section in flight on cpu has committed or aborted.
FenceCpu(thr, cpu) ==
    [u \in Threads |-> IF thr[u].cpu = cpu THEN Abort(thr[u]) ELSE thr[u]]

\* FenceAllCpus(): the broadcast form.
FenceAllCpus(thr) == [u \in Threads |-> Abort(thr[u])]

\* Thread t is preempted (or takes a signal) and resumes on the same CPU.
Preempt(t) ==
    /\ ~crashed
    /\ th[t] # Abort(th[t])
    /\ th' = [th EXCEPT ![t] = Abort(th[t])]
    /\ UNCHANGED <<slabs_and_shift, stopped, hdrs, slots, ctl, populated, central, app, crashed, handler, gen, num_classes_, init_call, printer>>

\* Thread t is migrated to CPU c.
Migrate(t, c) ==
    /\ ~crashed
    /\ c # th[t].cpu
    /\ th' = [th EXCEPT ![t] = [Abort(th[t]) EXCEPT !.cpu = c]]
    /\ UNCHANGED <<slabs_and_shift, stopped, hdrs, slots, ctl, populated, central, app, crashed, handler, gen, num_classes_, init_call, printer>>

(***************************************************************************)
(* The callers of the fast path.  A pointer is in the central free list,   *)
(* allocated to the application, in flight in a push, or in a slab.  The   *)
(* application frees a pointer by a push (a push that returns false hands  *)
(* it to the central free list) and allocates by a pop (a pop that returns *)
(* null leaves the allocation to the central free list: Refill).           *)
(***************************************************************************)
Refill(p) ==
    /\ ~crashed
    /\ central[p] > 0
    /\ central' = [central EXCEPT ![p] = @ - 1]
    /\ app' = app \cup {p}
    /\ UNCHANGED <<slabs_and_shift, stopped, hdrs, slots, th, ctl, populated, crashed, handler, gen, num_classes_, init_call, printer>>

CallPush(t, k, p) ==
    /\ ~crashed
    /\ th[t].pc = "idle"
    /\ p \in app
    /\ app' = app \ {p}
    /\ th' = RunOn(t, [th[t] EXCEPT !.pc = "start", !.kind = "push", !.k = k, !.ptr = p])
    /\ UNCHANGED <<slabs_and_shift, stopped, hdrs, slots, ctl, populated, central, crashed, handler, gen, num_classes_, init_call, printer>>

CallPop(t, k) ==
    /\ ~crashed
    /\ th[t].pc = "idle"
    /\ th' = RunOn(t, [th[t] EXCEPT !.pc = "start", !.kind = "pop", !.k = k])
    /\ UNCHANGED <<slabs_and_shift, stopped, hdrs, slots, ctl, populated, central, app, crashed, handler, gen, num_classes_, init_call, printer>>

(***************************************************************************)
(* Fast path: push and pop.                                                *)
(***************************************************************************)
Cached(r) == r.tcmalloc_slabs % 2 = TCMALLOC_CACHED_SLABS_MASK

\* The slab start held in a cached word.
CachedStart(r) == r.tcmalloc_slabs - TCMALLOC_CACHED_SLABS_MASK

\* Address of the header the thread's operation works on.
OpHeader(r) == CachedStart(r) + r.k * HeaderBytes

Returned(r) ==
    [r EXCEPT !.pc = "idle", !.kind = "none", !.k = 0, !.ptr = Null, !.lcur = 0]

\* push on a full LIFO: returns false, and the caller hands the pointer to the
\* central free list.
PushFull(t) ==
    /\ ~crashed
    /\ th[t].pc = "start" /\ Cached(th[t]) /\ th[t].kind = "push"
    /\ hdrs[OpHeader(th[t])].current = hdrs[OpHeader(th[t])].end
    /\ central' = [central EXCEPT ![th[t].ptr] = @ + 1]
    /\ th' = RunOn(t, Returned(th[t]))
    /\ UNCHANGED <<slabs_and_shift, stopped, hdrs, slots, ctl, populated, app, crashed, handler, gen, num_classes_, init_call, printer>>

\* pop on an empty LIFO: returns null.
PopEmpty(t) ==
    /\ ~crashed
    /\ th[t].pc = "start" /\ Cached(th[t]) /\ th[t].kind = "pop"
    /\ hdrs[OpHeader(th[t])].current = hdrs[OpHeader(th[t])].begin
    /\ th' = RunOn(t, Returned(th[t]))
    /\ UNCHANGED <<slabs_and_shift, stopped, hdrs, slots, ctl, populated, central, app, crashed, handler, gen, num_classes_, init_call, printer>>

\* A fast path that does not compare current with end or begin.
NoBoundsCheck(r, h) == TRUE

\* The operation of r can commit on header h: the LIFO is not full for a push,
\* not empty for a pop.
CanCommit(r, h) ==
    \/ r.kind = "push" /\ h.current # h.end
    \/ r.kind = "pop" /\ h.current # h.begin

\* The critical section has read the header and is before its commit store.
RseqBegin(t) ==
    /\ ~crashed
    /\ th[t].pc = "start" /\ Cached(th[t])
    /\ LET h == hdrs[OpHeader(th[t])]
       IN  /\ CanCommit(th[t], h)
           /\ th' = RunOn(t, [th[t] EXCEPT !.pc = "commit", !.lcur = h.current])
    /\ UNCHANGED <<slabs_and_shift, stopped, hdrs, slots, ctl, populated, central, app, crashed, handler, gen, num_classes_, init_call, printer>>

\* A push that stores one slot above current.
PushSlotAbove(r) == SlotAt(CachedStart(r), r.lcur + 1)

\* The slot the push commit stores into.
PushSlot(r) == SlotAt(CachedStart(r), r.lcur)

\* The commit of a push: the pointer is stored and current is incremented.
PushCommit(t) ==
    /\ ~crashed
    /\ th[t].pc = "commit" /\ th[t].kind = "push"
    /\ slots' = [slots EXCEPT ![PushSlot(th[t])] = th[t].ptr]
    /\ hdrs' = [hdrs EXCEPT ![OpHeader(th[t])].current = U16(th[t].lcur + 1)]
    /\ th' = RunOn(t, Returned(th[t]))
    /\ UNCHANGED <<slabs_and_shift, stopped, ctl, populated, central, app, crashed, handler, gen, num_classes_, init_call, printer>>

\* The slot the pop returns.
PopSlot(r) == SlotAt(CachedStart(r), r.lcur - 1)

\* The commit of a pop: current is decremented and the top pointer returned.
PopCommit(t) ==
    /\ ~crashed
    /\ th[t].pc = "commit" /\ th[t].kind = "pop"
    /\ hdrs' = [hdrs EXCEPT ![OpHeader(th[t])].current = U16(th[t].lcur - 1)]
    /\ app' = app \cup {slots[PopSlot(th[t])]}
    /\ th' = RunOn(t, Returned(th[t]))
    /\ UNCHANGED <<slabs_and_shift, stopped, slots, ctl, populated, central, crashed, handler, gen, num_classes_, init_call, printer>>

(***************************************************************************)
(* CacheCpuSlabSlow.                                                       *)
(***************************************************************************)
\* A CacheCpuSlabSlow that computes the start of CPU 0 whatever CPU it read.
NewValOfCpu0(r) ==
    CpuMemoryStart(r.lss.slabs, r.lss.shift, 0) + TCMALLOC_CACHED_SLABS_MASK

\* The word CacheCpuSlabSlow tries to cache.
NewVal(r) ==
    CpuMemoryStart(r.lss.slabs, r.lss.shift, r.lcpu) + TCMALLOC_CACHED_SLABS_MASK

\* tcmalloc_slabs = MASK; read the current CPU; load slabs_and_shift_.
SlowLoad(t) ==
    /\ ~crashed
    /\ \/ th[t].pc = "start" /\ ~Cached(th[t])
       \/ th[t].pc = "slow_load"
    /\ th' = RunOn(t, [th[t] EXCEPT !.tcmalloc_slabs = TCMALLOC_CACHED_SLABS_MASK,
                                     !.lcpu = th[t].cpu,
                                     !.lss = slabs_and_shift,
                                     !.lgen = gen,
                                     !.pc = "slow_store"])
    /\ UNCHANGED <<slabs_and_shift, stopped, hdrs, slots, ctl, populated, central, app, crashed, handler, gen, num_classes_, init_call, printer>>

\* StoreCurrentCpu: commits only while the thread is still on the CPU it read.
SlowStore(t) ==
    /\ ~crashed
    /\ th[t].pc = "slow_store"
    /\ th' = RunOn(t, IF th[t].cpu = th[t].lcpu
                      THEN [th[t] EXCEPT !.tcmalloc_slabs = NewVal(th[t]),
                                         !.pc = "slow_stopped"]
                      ELSE [th[t] EXCEPT !.pc = "slow_load"])
    /\ UNCHANGED <<slabs_and_shift, stopped, hdrs, slots, ctl, populated, central, app, crashed, handler, gen, num_classes_, init_call, printer>>

SlowDone(r) ==
    [r EXCEPT !.pc = "start", !.lcpu = 0, !.lss = InitialRegion, !.lgen = 0]

\* The check of stopped_[cpu] after the store.
SlowStopped(t) ==
    /\ ~crashed
    /\ th[t].pc = "slow_stopped"
    /\ th' = RunOn(t, IF stopped[th[t].lcpu]
                      THEN [SlowDone(th[t]) EXCEPT !.tcmalloc_slabs = 0]
                      ELSE [th[t] EXCEPT !.pc = "slow_recheck"])
    /\ UNCHANGED <<slabs_and_shift, stopped, hdrs, slots, ctl, populated, central, app, crashed, handler, gen, num_classes_, init_call, printer>>

\* A CacheCpuSlabSlow without its second load of slabs_and_shift_.
SlabsNeverChanged(r) == FALSE

\* A CacheCpuSlabSlow whose second load never agrees with the first.
SlabsAlwaysChanged(r) == TRUE

\* slabs_and_shift != slabs_and_shift_.load()
SlabsChanged(r) == r.lss # slabs_and_shift

\* The second load of slabs_and_shift_.
SlowRecheck(t) ==
    /\ ~crashed
    /\ th[t].pc = "slow_recheck"
    /\ th' = RunOn(t, IF SlabsChanged(th[t])
                      THEN [th[t] EXCEPT !.pc = "slow_load"]
                      ELSE SlowDone(th[t]))
    /\ UNCHANGED <<slabs_and_shift, stopped, hdrs, slots, ctl, populated, central, app, crashed, handler, gen, num_classes_, init_call, printer>>

\* The steps of thread t, with its operations on the classes ks and the
\* pointers ps.
ThreadStep(t, ks, ps) ==
    \/ \E k \in ks, p \in ps : CallPush(t, k, p)
    \/ \E k \in ks : CallPop(t, k)
    \/ PushFull(t)
    \/ PopEmpty(t)
    \/ RseqBegin(t)
    \/ PushCommit(t)
    \/ PopCommit(t)
    \/ SlowLoad(t)
    \/ SlowStore(t)
    \/ SlowStopped(t)
    \/ SlowRecheck(t)

(***************************************************************************)
(* Control operations on the slab memory, as functions of the memory.      *)
(***************************************************************************)
\* An InitCpuImpl that does not reserve the slots of a class.
ElemsNotAdvanced(elems, cap) == elems

\* elems += cap
ElemsAfter(elems, cap) == elems + cap

\* An InitCpuImpl that leaves the fake item null.
PrefetchTargetNull(elems) == Null

\* *elems = elems: the fake item before the first slot of a class points to
\* itself.
PrefetchTarget(elems) == elems

\* The loop of InitCpuImpl from class size_class on; elems is the running
\* slot index.  The result is the memory written and whether Crash() was hit.
RECURSIVE InitCpuLoop(_, _, _, _, _, _, _)
InitCpuLoop(H, S, slabs, shift, cpu, capacity, st) ==
    IF st.size_class >= NumClasses
    THEN [h |-> H, s |-> S, crash |-> FALSE]
    ELSE
      LET cap   == capacity[st.size_class]
          start == CpuMemoryStart(slabs, shift, cpu)
          S1    == IF cap # 0
                   THEN [S EXCEPT ![SlotAt(start, st.elems)] =
                                      PrefetchTarget(SlotAt(start, st.elems))]
                   ELSE S
          e1    == IF cap # 0 THEN st.elems + 1 ELSE st.elems
          hdr   == [begin |-> U16(e1), current |-> U16(e1), end |-> U16(e1)]
          H1    == [H EXCEPT ![GetHeader(slabs, shift, cpu, st.size_class)] = hdr]
          e2    == ElemsAfter(e1, cap)
      IN  IF U16(cap) # cap
          THEN [h |-> H, s |-> S, crash |-> TRUE]
          ELSE IF e2 * PtrBytes > Pow2(shift)
          THEN [h |-> H1, s |-> S1, crash |-> TRUE]
          ELSE InitCpuLoop(H1, S1, slabs, shift, cpu, capacity,
                           [size_class |-> st.size_class + 1, elems |-> e2])

\* InitCpuImpl(slabs, shift, cpu, capacity) on memory (H, S), with stopped_
\* as stp.
InitCpuImpl(H, S, stp, slabs, shift, cpu, capacity) ==
    IF ~stp[cpu] \/ Pow2(shift) > 65536 * PtrBytes
    THEN [h |-> H, s |-> S, crash |-> TRUE]
    ELSE InitCpuLoop(H, S, slabs, shift, cpu, capacity,
                     [size_class |-> 1,
                      elems |-> (NumClasses * HeaderBytes) \div PtrBytes])

\* A batch that starts one slot above first.
BatchAbove(S, start, first, size) ==
    [i \in 1 .. size |-> S[SlotAt(start, first + i)]]

\* The batch of size pointers that starts at slot index first of the slab.
Batch(S, start, first, size) ==
    [i \in 1 .. size |-> S[SlotAt(start, first + i - 1)]]

\* A DrainCpu that hands over the whole capacity of a class.
DrainSizeToEnd(hdr) == hdr.end - hdr.begin

\* size of DrainCpu: the number of elements in the class.
DrainSize(hdr) == hdr.current - hdr.begin

\* What the drain handler is called with for one class.
DrainCall(H, S, slabs, shift, cpu, size_class) ==
    LET hdr == H[GetHeader(slabs, shift, cpu, size_class)]
        size == DrainSize(hdr)
    IN  [cpu |-> cpu, size_class |-> size_class,
         batch |-> SlotAt(CpuMemoryStart(slabs, shift, cpu), hdr.begin),
         items |-> Batch(S, CpuMemoryStart(slabs, shift, cpu), hdr.begin, size),
         size |-> size, cap |-> hdr.end - hdr.begin]

\* A DrainCpu that resets current and leaves end where it was.
DrainedHeaderKeepsEnd(hdr) == [hdr EXCEPT !.current = hdr.begin]

\* The header DrainCpu stores back for one class.
DrainedHeader(hdr) == [hdr EXCEPT !.current = hdr.begin, !.end = hdr.begin]

\* DrainCpu(slabs, shift, cpu, drain_handler): the calls made, in order, and
\* the headers afterwards.
DrainCpu(H, S, slabs, shift, cpu) ==
    [calls |-> [k \in Classes |-> DrainCall(H, S, slabs, shift, cpu, k)],
     h |-> [a \in DOMAIN H |->
              IF \E k \in Classes : a = GetHeader(slabs, shift, cpu, k)
              THEN DrainedHeader(H[a]) ELSE H[a]]]

\* A GrowOtherCache that grows by len whatever room is left.
ToGrowUnbounded(hdr, len, max_cap) == U16(len)

\* to_grow of GrowOtherCache.
ToGrow(hdr, len, max_cap) == MinU16(len, max_cap - (hdr.end - hdr.begin))

\* GrowOtherCache(cpu, size_class, len, max_capacity): the header stored and
\* the value returned.
GrowOtherCache(H, cpu, size_class, len, max_capacity) ==
    LET slabs == slabs_and_shift.slabs
        shift == slabs_and_shift.shift
        max_cap == max_capacity[shift]
        hdrp == GetHeader(slabs, shift, cpu, size_class)
        hdr == H[hdrp]
        to_grow == ToGrow(hdr, len, max_cap)
    IN  [h |-> [H EXCEPT ![hdrp] = [hdr EXCEPT !.end = U16(hdr.end + to_grow)]],
         ret |-> to_grow]

\* pop of ShrinkOtherCache: how many elements are handed to shrink_handler.
ToPop(hdr, len) ==
    LET unused == U16(hdr.end - hdr.current)
    IN  IF unused < len /\ hdr.current # hdr.begin
        THEN MinU16(len - unused, hdr.current - hdr.begin)
        ELSE 0

\* ShrinkOtherCache(cpu, size_class, len, shrink_handler): the header stored,
\* the handler's call (if any) and the value returned.
ShrinkOtherCache(H, S, cpu, size_class, len) ==
    LET slabs == slabs_and_shift.slabs
        shift == slabs_and_shift.shift
        hdrp == GetHeader(slabs, shift, cpu, size_class)
        hdr == H[hdrp]
        unused == U16(hdr.end - hdr.current)
        called == unused < len /\ hdr.current # hdr.begin
        pop == ToPop(hdr, len)
        cur1 == U16(hdr.current - pop)
        to_shrink == MinU16(len, hdr.end - cur1)
    IN  [h |-> [H EXCEPT ![hdrp] = [hdr EXCEPT !.current = cur1,
                                               !.end = U16(hdr.end - to_shrink)]],
         called |-> called,
         items |-> Batch(S, CpuMemoryStart(slabs, shift, cpu), hdr.current - pop, pop),
         pop |-> pop,
         ret |-> to_shrink]

\* The central free list after a handler has taken ownership of items; a
\* value that is no pointer is counted under Null.
RECURSIVE Deliver(_, _)
Deliver(cen, items) ==
    IF items = <<>> THEN cen
    ELSE LET v == Head(items)
             key == IF v \in Ptrs THEN v ELSE Null
         IN  Deliver([cen EXCEPT ![key] = @ + 1], Tail(items))

RECURSIVE Flatten(_)
Flatten(ss) == IF ss = <<>> THEN <<>> ELSE Head(ss) \o Flatten(Tail(ss))

\* Every pointer a drain hands over, in the order of the calls.
DrainItems(calls) == Flatten([i \in 1 .. (NumClasses - 1) |-> calls[i].items])

(***************************************************************************)
(* The control threads.  The callers keep to the preconditions the slab    *)
(* does not check in release builds: GrowOtherCache, ShrinkOtherCache and  *)
(* StartCpu are called on a CPU the caller has stopped, InitCpu once per   *)
(* CPU, and the other caches only of populated CPUs are resized.           *)
(***************************************************************************)
\* StopCpu, entered directly or through the scoped stop of InitCpu and Drain:
\* the TC_CHECK of stopped_[cpu].
StopCpuCheck(x, c, op) ==
    /\ ~crashed
    /\ ctl[x].pc = "idle"
    /\ op = "InitCpu" => c \notin populated
    /\ IF stopped[c]
       THEN crashed' = TRUE /\ UNCHANGED ctl
       ELSE /\ ctl' = [ctl EXCEPT ![x].pc = "stop_store", ![x].op = op, ![x].cpu = c]
            /\ UNCHANGED crashed
    /\ UNCHANGED <<slabs_and_shift, stopped, hdrs, slots, th, populated, central, app, handler, gen, num_classes_, init_call, printer>>

\* StopCpu: stopped_[cpu].store(true).
StopCpuStore(x) ==
    /\ ~crashed
    /\ ctl[x].pc = "stop_store"
    /\ stopped' = [stopped EXCEPT ![ctl[x].cpu] = TRUE]
    /\ ctl' = [ctl EXCEPT ![x].pc = "stop_fence"]
    /\ UNCHANGED <<slabs_and_shift, hdrs, slots, th, populated, central, app, crashed, handler, gen, num_classes_, init_call, printer>>

\* A StopCpu without its fence.
StopCpuNoFence(thr, cpu) == thr

\* The threads after the fence of StopCpu(cpu).
StopCpuFenced(thr, cpu) == FenceCpu(thr, cpu)

\* StopCpu: FenceCpu(cpu), after which StopCpu returns.
StopCpuFence(x) ==
    /\ ~crashed
    /\ ctl[x].pc = "stop_fence"
    /\ th' = StopCpuFenced(th, ctl[x].cpu)
    /\ ctl' = IF ctl[x].op = "StopCpu"
              THEN [ctl EXCEPT ![x].pc = "idle", ![x].op = "none", ![x].cpu = 0,
                               ![x].owned = @ \cup {ctl[x].cpu}]
              ELSE [ctl EXCEPT ![x].pc = "body"]
    /\ UNCHANGED <<slabs_and_shift, stopped, hdrs, slots, populated, central, app, crashed, handler, gen, num_classes_, init_call, printer>>

\* StartCpu(cpu).
StartCpu(x, c) ==
    /\ ~crashed
    /\ ctl[x].pc = "idle"
    /\ c \in ctl[x].owned
    /\ stopped' = [stopped EXCEPT ![c] = FALSE]
    /\ ctl' = [ctl EXCEPT ![x].owned = @ \ {c}]
    /\ UNCHANGED <<slabs_and_shift, hdrs, slots, th, populated, central, app, crashed, handler, gen, num_classes_, init_call, printer>>

\* InitCpu, inside its scoped stop.
InitCpu(x) ==
    /\ ~crashed
    /\ ctl[x].pc = "body" /\ ctl[x].op = "InitCpu"
    /\ LET r == InitCpuImpl(hdrs, slots, stopped, slabs_and_shift.slabs,
                            slabs_and_shift.shift, ctl[x].cpu,
                            Capacity(slabs_and_shift.shift))
       IN  /\ hdrs' = r.h
           /\ slots' = r.s
           /\ crashed' = r.crash
    /\ populated' = populated \cup {ctl[x].cpu}
    /\ ctl' = [ctl EXCEPT ![x].pc = "scoped_start"]
    /\ UNCHANGED <<slabs_and_shift, stopped, th, central, app, handler, gen, num_classes_, init_call, printer>>

\* Drain, inside its scoped stop.
Drain(x) ==
    /\ ~crashed
    /\ ctl[x].pc = "body" /\ ctl[x].op = "Drain"
    /\ LET d == DrainCpu(hdrs, slots, slabs_and_shift.slabs,
                         slabs_and_shift.shift, ctl[x].cpu)
       IN  /\ hdrs' = d.h
           /\ central' = Deliver(central, DrainItems(d.calls))
           /\ handler' = d.calls
    /\ ctl' = [ctl EXCEPT ![x].pc = "scoped_start"]
    /\ UNCHANGED <<slabs_and_shift, stopped, slots, th, populated, app, crashed, gen, num_classes_, init_call, printer>>

\* The end of the scoped stop: StartCpu(cpu).
ScopedStart(x) ==
    /\ ~crashed
    /\ ctl[x].pc = "scoped_start"
    /\ stopped' = [stopped EXCEPT ![ctl[x].cpu] = FALSE]
    /\ ctl' = [ctl EXCEPT ![x].pc = "idle", ![x].op = "none", ![x].cpu = 0]
    /\ handler' = <<>>
    /\ UNCHANGED <<slabs_and_shift, hdrs, slots, th, populated, central, app, crashed, gen, num_classes_, init_call, printer>>

GrowOtherCacheCall(x, c, k, len) ==
    /\ ~crashed
    /\ ctl[x].pc = "idle"
    /\ c \in ctl[x].owned /\ c \in populated
    /\ hdrs' = GrowOtherCache(hdrs, c, k, len, MaxCapacityFn(k)).h
    /\ UNCHANGED <<slabs_and_shift, stopped, slots, th, ctl, populated, central, app, crashed, handler, gen, num_classes_, init_call, printer>>

ShrinkOtherCacheCall(x, c, k, len) ==
    /\ ~crashed
    /\ ctl[x].pc = "idle"
    /\ c \in ctl[x].owned /\ c \in populated
    /\ LET r == ShrinkOtherCache(hdrs, slots, c, k, len)
       IN  /\ hdrs' = r.h
           /\ central' = Deliver(central, r.items)
    /\ UNCHANGED <<slabs_and_shift, stopped, slots, th, ctl, populated, app, crashed, handler, gen, num_classes_, init_call, printer>>

(***************************************************************************)
(* ResizeSlabs.                                                            *)
(***************************************************************************)
\* Entry: the load of slabs_and_shift_.
ResizeSlabsBegin(x, new) ==
    /\ ~crashed
    /\ ctl[x].pc = "idle"
    /\ gen < MaxResizes
    /\ new.shift # slabs_and_shift.shift
    /\ new.slabs # slabs_and_shift.slabs
    /\ ctl' = [ctl EXCEPT ![x].pc = "rs_check", ![x].op = "ResizeSlabs",
                          ![x].cpu = 0, ![x].old = slabs_and_shift, ![x].new = new]
    /\ UNCHANGED <<slabs_and_shift, stopped, hdrs, slots, th, populated, central, app, crashed, handler, gen, num_classes_, init_call, printer>>

\* Phase 1, per CPU: TC_CHECK(!stopped_[cpu]).
ResizeSlabsCheck(x) ==
    /\ ~crashed
    /\ ctl[x].pc = "rs_check"
    /\ IF stopped[ctl[x].cpu]
       THEN crashed' = TRUE /\ UNCHANGED ctl
       ELSE ctl' = [ctl EXCEPT ![x].pc = "rs_store"] /\ UNCHANGED crashed
    /\ UNCHANGED <<slabs_and_shift, stopped, hdrs, slots, th, populated, central, app, handler, gen, num_classes_, init_call, printer>>

\* A ResizeSlabs that does not mark the CPUs stopped.
ResizeSlabsNotStopped(stp, cpu) == stp

\* Phase 1, per CPU: stopped_[cpu].store(true).
ResizeSlabsStopped(stp, cpu) == [stp EXCEPT ![cpu] = TRUE]

\* Phase 1, per CPU: the store to stopped_[cpu] and InitCpuImpl on the new
\* slab when the CPU is populated.
ResizeSlabsStop(x) ==
    /\ ~crashed
    /\ ctl[x].pc = "rs_store"
    /\ LET c == ctl[x].cpu
           new == ctl[x].new
           r == InitCpuImpl(hdrs, slots, stopped', new.slabs, new.shift, c,
                            Capacity(new.shift))
       IN  /\ stopped' = ResizeSlabsStopped(stopped, c)
           /\ IF c \in populated
              THEN hdrs' = r.h /\ slots' = r.s /\ crashed' = r.crash
              ELSE UNCHANGED <<hdrs, slots, crashed>>
           /\ ctl' = IF c + 1 < NumCPUs
                     THEN [ctl EXCEPT ![x].pc = "rs_check", ![x].cpu = c + 1]
                     ELSE [ctl EXCEPT ![x].pc = "rs_fence", ![x].cpu = 0]
    /\ UNCHANGED <<slabs_and_shift, th, populated, central, app, handler, gen, num_classes_, init_call, printer>>

\* A ResizeSlabs without its fence.
ResizeSlabsNoFence(thr) == thr

\* The threads after the fence of ResizeSlabs.
ResizeSlabsFenced(thr) == FenceAllCpus(thr)

ResizeSlabsFence(x) ==
    /\ ~crashed
    /\ ctl[x].pc = "rs_fence"
    /\ th' = ResizeSlabsFenced(th)
    /\ ctl' = [ctl EXCEPT ![x].pc = "rs_publish"]
    /\ UNCHANGED <<slabs_and_shift, stopped, hdrs, slots, populated, central, app, crashed, handler, gen, num_classes_, init_call, printer>>

\* Phase 2: the store to slabs_and_shift_.
ResizeSlabsPublish(x) ==
    /\ ~crashed
    /\ ctl[x].pc = "rs_publish"
    /\ slabs_and_shift' = ctl[x].new
    /\ ctl' = [ctl EXCEPT ![x].pc = "rs_drain"]
    /\ gen' = gen + 1
    /\ UNCHANGED <<stopped, hdrs, slots, th, populated, central, app, crashed, handler, num_classes_, init_call, printer>>

\* Phase 4, per CPU: DrainCpu on the old slab when the CPU is populated.
ResizeSlabsDrain(x) ==
    /\ ~crashed
    /\ ctl[x].pc = "rs_drain"
    /\ LET c == ctl[x].cpu
           old == ctl[x].old
           d == DrainCpu(hdrs, slots, old.slabs, old.shift, c)
       IN  /\ IF c \in populated
              THEN /\ hdrs' = d.h
                   /\ central' = Deliver(central, DrainItems(d.calls))
                   /\ handler' = handler \o d.calls
              ELSE UNCHANGED <<hdrs, central, handler>>
           /\ ctl' = IF c + 1 < NumCPUs
                     THEN [ctl EXCEPT ![x].cpu = c + 1]
                     ELSE [ctl EXCEPT ![x].pc = "rs_start", ![x].cpu = 0]
    /\ UNCHANGED <<slabs_and_shift, stopped, slots, th, populated, app, crashed, gen, num_classes_, init_call, printer>>

\* A ResizeSlabs that returns with the CPUs still marked stopped.
ResizeSlabsLeftStopped(stp, cpu) == stp

\* The last loop, per CPU: stopped_[cpu].store(false).
ResizeSlabsStarted(stp, cpu) == [stp EXCEPT ![cpu] = FALSE]

\* The last loop, per CPU: stopped_[cpu].store(false); then ResizeSlabs returns.
ResizeSlabsStart(x) ==
    /\ ~crashed
    /\ ctl[x].pc = "rs_start"
    /\ LET c == ctl[x].cpu
       IN  /\ stopped' = ResizeSlabsStarted(stopped, c)
           /\ ctl' = IF c + 1 < NumCPUs
                     THEN [ctl EXCEPT ![x].cpu = c + 1]
                     ELSE [ctl EXCEPT ![x].pc = "idle", ![x].op = "none",
                                      ![x].cpu = 0, ![x].old = InitialRegion,
                                      ![x].new = InitialRegion]
           /\ handler' = IF c + 1 < NumCPUs THEN handler ELSE <<>>
    /\ UNCHANGED <<slabs_and_shift, hdrs, slots, th, populated, central, app, crashed, gen, num_classes_, init_call, printer>>

(***************************************************************************)
(* The control operations with their ASSERTs, for callers that do not keep *)
(* to the preconditions.  ASSERT is compiled out when NDEBUG is set; the   *)
(* build is init_call.ndebug.                                              *)
(***************************************************************************)
\* ASSERT(cond) lets the caller through.
AssertPasses(nd, cond) == nd \/ cond

\* GrowOtherCache with ASSERT(stopped_[cpu]).
GrowOtherCacheAsserted(H, stp, nd, cpu, size_class, len, max_capacity) ==
    IF AssertPasses(nd, stp[cpu])
    THEN [h |-> GrowOtherCache(H, cpu, size_class, len, max_capacity).h, crash |-> FALSE]
    ELSE [h |-> H, crash |-> TRUE]

\* ShrinkOtherCache with ASSERT(stopped_[cpu]).
ShrinkOtherCacheAsserted(H, S, stp, nd, cpu, size_class, len) ==
    IF AssertPasses(nd, stp[cpu])
    THEN [h |-> ShrinkOtherCache(H, S, cpu, size_class, len).h,
          items |-> ShrinkOtherCache(H, S, cpu, size_class, len).items,
          crash |-> FALSE]
    ELSE [h |-> H, items |-> <<>>, crash |-> TRUE]

\* StartCpu with ASSERT(stopped_[cpu]).
StartCpuAsserted(stp, nd, cpu) ==
    IF AssertPasses(nd, stp[cpu])
    THEN [stp |-> [stp EXCEPT ![cpu] = FALSE], crash |-> FALSE]
    ELSE [stp |-> stp, crash |-> TRUE]

\* GrowOtherCache called on a populated CPU, stopped or not.
GrowOtherCacheAny(x, c, k, len) ==
    /\ ~crashed
    /\ ctl[x].pc = "idle"
    /\ c \in populated
    /\ LET r == GrowOtherCacheAsserted(hdrs, stopped, init_call.ndebug, c, k, len,
                                       MaxCapacityFn(k))
       IN  hdrs' = r.h /\ crashed' = r.crash
    /\ UNCHANGED <<slabs_and_shift, stopped, slots, th, ctl, populated, central, app,
                   handler, gen, num_classes_, init_call, printer>>

\* ShrinkOtherCache called on a populated CPU, stopped or not.
ShrinkOtherCacheAny(x, c, k, len) ==
    /\ ~crashed
    /\ ctl[x].pc = "idle"
    /\ c \in populated
    /\ LET r == ShrinkOtherCacheAsserted(hdrs, slots, stopped, init_call.ndebug, c, k, len)
       IN  /\ hdrs' = r.h
           /\ central' = Deliver(central, r.items)
           /\ crashed' = r.crash
    /\ UNCHANGED <<slabs_and_shift, stopped, slots, th, ctl, populated, app,
                   handler, gen, num_classes_, init_call, printer>>

\* StartCpu called on a CPU, stopped or not.
StartCpuAny(x, c) ==
    /\ ~crashed
    /\ ctl[x].pc = "idle"
    /\ LET r == StartCpuAsserted(stopped, init_call.ndebug, c)
       IN  stopped' = r.stp /\ crashed' = r.crash
    /\ ctl' = [ctl EXCEPT ![x].owned = @ \ {c}]
    /\ UNCHANGED <<slabs_and_shift, hdrs, slots, th, populated, central, app,
                   handler, gen, num_classes_, init_call, printer>>

\* StopCpu / StartCpu and the scoped stop of the operations ops.
StopStartStep(x, cs, ops) ==
    \/ \E c \in cs, op \in ops : StopCpuCheck(x, c, op)
    \/ StopCpuStore(x)
    \/ StopCpuFence(x)
    \/ \E c \in cs : StartCpu(x, c)
    \/ ScopedStart(x)

GrowStep(x, cs, ks, lens) ==
    \E c \in cs, k \in ks, len \in lens : GrowOtherCacheCall(x, c, k, len)

ShrinkStep(x, cs, ks, lens) ==
    \E c \in cs, k \in ks, len \in lens : ShrinkOtherCacheCall(x, c, k, len)

ResizeStep(x) ==
    \/ \E new \in Regions : ResizeSlabsBegin(x, new)
    \/ ResizeSlabsCheck(x)
    \/ ResizeSlabsStop(x)
    \/ ResizeSlabsFence(x)
    \/ ResizeSlabsPublish(x)
    \/ ResizeSlabsDrain(x)
    \/ ResizeSlabsStart(x)

(***************************************************************************)
(* Specifications.  One control thread stands for callers that serialise   *)
(* the control operations; the fast-path threads run concurrently with it. *)
(*   Spec:       the data operations on CPU 0, one fast-path thread.       *)
(*   SpecHdr:    every operation on the headers, ResizeSlabs included.     *)
(*   SpecStop:   StopCpu/StartCpu against two migrating threads.           *)
(*   SpecResize: ResizeSlabs against migrating threads.                    *)
(*   SpecRace:   two control threads that are not serialised.              *)
(***************************************************************************)
Next ==
    \/ ThreadStep(1, Classes, Ptrs)
    \/ Preempt(1)
    \/ \E p \in Ptrs : Refill(p)
    \/ StopStartStep(1, {0}, {"StopCpu", "InitCpu", "Drain"})
    \/ InitCpu(1)
    \/ Drain(1)
    \/ GrowStep(1, {0}, Classes, Lens)
    \/ ShrinkStep(1, {0}, Classes, Lens)

Spec == Init /\ [][Next]_vars

NextHdr ==
    \/ ThreadStep(1, {1}, Ptrs)
    \/ Preempt(1)
    \/ \E p \in Ptrs : Refill(p)
    \/ StopStartStep(1, {0}, {"StopCpu", "InitCpu", "Drain"})
    \/ InitCpu(1)
    \/ Drain(1)
    \/ GrowStep(1, {0}, Classes, Lens)
    \/ ShrinkStep(1, {0}, Classes, Lens)
    \/ ResizeStep(1)

SpecHdr == Init /\ [][NextHdr]_vars

NextStop ==
    \/ \E t \in Threads : ThreadStep(t, {1}, {1})
    \/ \E t \in Threads, c \in CPUs : Migrate(t, c)
    \/ Refill(1)
    \/ StopStartStep(1, CPUs, {"StopCpu", "InitCpu"})
    \/ InitCpu(1)
    \/ GrowStep(1, CPUs, {1}, {2})

SpecStop == Init /\ [][NextStop]_vars

NextResize ==
    \/ \E t \in Threads : ThreadStep(t, {1}, {1})
    \/ \E c \in CPUs : Migrate(1, c)
    \/ Refill(1)
    \/ StopStartStep(1, {0}, {"StopCpu", "InitCpu"})
    \/ InitCpu(1)
    \/ GrowStep(1, {0}, {1}, {2})
    \/ ResizeStep(1)

SpecResize == Init /\ [][NextResize]_vars

NextRace ==
    \/ ThreadStep(1, {1}, {1})
    \/ Refill(1)
    \/ \E x \in Control :
          \/ StopStartStep(x, {0}, {"StopCpu", "InitCpu"})
          \/ InitCpu(x)
          \/ GrowStep(x, {0}, {1}, {2})

SpecRace == Init /\ [][NextRace]_vars

\* Callers that do not keep to the preconditions, in either build: control
\* operations on CPUs that are not stopped, a second Init, and a Resize while
\* a CPU is stopped.
NextMisuse ==
    \/ StopStartStep(1, CPUs, {"StopCpu", "InitCpu"})
    \/ InitCpu(1)
    \/ \E c \in CPUs, k \in Classes, len \in {1, 2} : GrowOtherCacheAny(1, c, k, len)
    \/ \E c \in CPUs, k \in Classes, len \in {1, 2} : ShrinkOtherCacheAny(1, c, k, len)
    \/ \E c \in CPUs : StartCpuAny(1, c)
    \/ ResizeStep(1)
    \/ InitAgain(InitialArgs)
    \/ InitCall

SpecMisuse == InitAnyBuild /\ [][NextMisuse]_vars

\* A Printer and the calls of printf on it.
NextPrinter == \E s \in Chunks : Printf(s)

SpecPrinter == InitPrinter /\ [][NextPrinter]_vars

\* The control operations on both CPUs, with one fast-path thread filling
\* class 1 of CPU 0.
NextCtl ==
    \/ ThreadStep(1, {1}, {1})
    \/ Refill(1)
    \/ StopStartStep(1, CPUs, {"StopCpu", "InitCpu", "Drain"})
    \/ InitCpu(1)
    \/ Drain(1)
    \/ GrowStep(1, {0}, {1}, {2})
    \/ ResizeStep(1)

SpecCtl == Init /\ [][NextCtl]_vars

\* The steps of thread t inside a push or pop it has started: what the
\* scheduler owes a runnable thread.
ThreadRuns(t) ==
    \/ PushFull(t)
    \/ PopEmpty(t)
    \/ RseqBegin(t)
    \/ PushCommit(t)
    \/ PopCommit(t)
    \/ SlowLoad(t)
    \/ SlowStore(t)
    \/ SlowStopped(t)
    \/ SlowRecheck(t)

\* Thread t is moved to a CPU of higher number: migrations that do not recur
\* forever.
MigrateUp(t) == \E c \in CPUs : c > th[t].cpu /\ Migrate(t, c)

\* One fast-path thread under a fair scheduler, a control thread that stops
\* and starts CPU 0 as often as it likes, and resizes.
NextLive ==
    \/ ThreadStep(1, {1}, {1})
    \/ Refill(1)
    \/ MigrateUp(1)
    \/ StopStartStep(1, {0}, {"StopCpu", "InitCpu"})
    \/ InitCpu(1)
    \/ GrowStep(1, {0}, {1}, {2})
    \/ ResizeStep(1)

SpecLive == Init /\ [][NextLive]_vars /\ WF_vars(ThreadRuns(1))

\* Init called on a slab that has not been initialised, and once more.
NextInit ==
    \/ InitCall
    \/ \E a \in InitArgs : InitAgain(a)

SpecInit == InitBefore /\ [][NextInit]_vars

(***************************************************************************)
(* Properties.                                                             *)
(***************************************************************************)
\* The header of (cpu, size_class) in region r.
HeaderIn(r, cpu, size_class) == hdrs[GetHeader(r.slabs, r.shift, cpu, size_class)]

\* The header of (cpu, size_class) in the published slab.
Header(cpu, size_class) == HeaderIn(slabs_and_shift, cpu, size_class)

\* C5. Header integrity: every header of every slab satisfies
\* begin <= current <= end and end - begin <= max_capacity(shift), whatever
\* InitCpu, pushes, pops, GrowOtherCache, ShrinkOtherCache, Drain and
\* ResizeSlabs have run.
HeaderIntegrity ==
    \A r \in Regions, c \in CPUs, k \in Classes :
        LET h == HeaderIn(r, c, k)
        IN  /\ h.begin <= h.current
            /\ h.current <= h.end
            /\ h.end - h.begin <= MaxCapacityFn(k)[r.shift]

\* After a resize, a class grown to its max_capacity holds a pointer.
HeaderIntegrityWitness ==
    /\ gen > 0
    /\ \E c \in populated, k \in Classes :
         /\ Header(c, k).begin < Header(c, k).current
         /\ Header(c, k).end - Header(c, k).begin = MaxCapacityFn(k)[slabs_and_shift.shift]

\* C6. Class disjointness: on every initialised CPU of the published slab the
\* slot ranges [begin, end) of two distinct classes do not overlap, none
\* overlaps the header area, and all lie inside the CPU's 2^shift bytes.
ClassDisjointness ==
    \A c \in populated, k \in Classes :
        LET h == Header(c, k)
        IN  /\ h.begin * PtrBytes >= NumClasses * HeaderBytes
            /\ h.end * PtrBytes <= Pow2(slabs_and_shift.shift)
            /\ \A k2 \in Classes \ {k} :
                  \/ h.end <= Header(c, k2).begin
                  \/ Header(c, k2).end <= h.begin

\* After a resize, every class of a CPU is grown to the capacity it was laid
\* out with.
ClassDisjointnessWitness ==
    /\ gen > 0
    /\ \E c \in populated : \A k \in Classes :
         Header(c, k).end - Header(c, k).begin = Capacity(slabs_and_shift.shift)[k]

\* The LIFO of (cpu, size_class) in the published slab, oldest pointer first,
\* read from headers H and slots S.
Lifo(H, S, cpu, size_class) ==
    LET h == H[GetHeader(slabs_and_shift.slabs, slabs_and_shift.shift, cpu, size_class)]
        start == CpuMemoryStart(slabs_and_shift.slabs, slabs_and_shift.shift, cpu)
    IN  [i \in 1 .. (h.current - h.begin) |-> S[SlotAt(start, h.begin + i - 1)]]

Last(q) == q[Len(q)]
Front(q) == SubSeq(q, 1, Len(q) - 1)

\* A step of a fast-path thread (the control operations that leave ctl alone
\* leave th alone too).
FastPathStep == th' # th /\ ctl' = ctl

\* Thread t returns from its push or pop in this step.
Completes(t) == th[t].pc \in {"start", "commit"} /\ th'[t].pc = "idle"

\* The operation thread t returns from acted on the LIFO of its CPU and class
\* as a push or pop on a sequential stack does.
CompletesAsSequential(t) ==
    LET c == th[t].cpu
        k == th[t].k
        before == Lifo(hdrs, slots, c, k)
        after == Lifo(hdrs', slots', c, k)
        full == Header(c, k).current = Header(c, k).end
    IN  IF th[t].kind = "push"
        THEN IF full
             THEN after = before /\ central'[th[t].ptr] = central[th[t].ptr] + 1
             ELSE after = Append(before, th[t].ptr) /\ central' = central
        ELSE IF before = <<>>
             THEN after = before /\ app' = app
             ELSE after = Front(before) /\ app' = app \cup {Last(before)}

\* C7. LIFO order: every push that succeeds appends its pointer to the LIFO of
\* its CPU and class, every pop that succeeds removes and returns the pointer
\* pushed last and not yet popped, and a pop on the emptied LIFO returns null.
LifoOrder ==
    [][FastPathStep => \A t \in Threads : Completes(t) => CompletesAsSequential(t)]_vars

\* A pop is about to commit on a LIFO that holds two pointers.
LifoOrderWitness ==
    \E t \in Threads :
        /\ th[t].pc = "commit" /\ th[t].kind = "pop"
        /\ Len(Lifo(hdrs, slots, th[t].cpu, th[t].k)) = 2

\* Thread t is on the fast path with a cached slab and its LIFO is full (for
\* a push) or empty (for a pop).
CannotProceed(t) ==
    /\ th[t].pc = "start" /\ Cached(th[t])
    /\ \/ th[t].kind = "push" /\ Header(th[t].cpu, th[t].k).current = Header(th[t].cpu, th[t].k).end
       \/ th[t].kind = "pop" /\ Header(th[t].cpu, th[t].k).current = Header(th[t].cpu, th[t].k).begin

\* C8. A push on a full LIFO returns false and a pop on an empty LIFO returns
\* null, and neither changes a header or an element slot.
FullOrEmptyHasNoEffect ==
    [][FastPathStep =>
        \A t \in Threads :
            (CannotProceed(t) /\ th'[t].pc # "start") =>
                /\ th'[t].pc = "idle"
                /\ hdrs' = hdrs /\ slots' = slots
                /\ IF th[t].kind = "push"
                   THEN /\ central' = [central EXCEPT ![th[t].ptr] = @ + 1]
                        /\ app' = app
                   ELSE central' = central /\ app' = app]_vars

\* A push is attempted on a LIFO that has capacity and is full.
FullOrEmptyHasNoEffectWitness ==
    \E t \in Threads :
        /\ CannotProceed(t) /\ th[t].kind = "push"
        /\ Header(th[t].cpu, th[t].k).end > Header(th[t].cpu, th[t].k).begin

\* C10. GrowOtherCache on a stopped CPU, for every len: it returns
\* g = min(len, max_capacity(shift) - (end - begin)), sets end to end + g and
\* leaves begin, current and every other header unchanged.
GrowReturnsMinOfLen ==
    \A x \in Control, c \in CPUs, k \in Classes, len \in Lens :
        (c \in ctl[x].owned /\ c \in populated) =>
            LET hdr == Header(c, k)
                max_cap == MaxCapacityFn(k)[slabs_and_shift.shift]
                g == Min(len, max_cap - (hdr.end - hdr.begin))
                r == GrowOtherCache(hdrs, c, k, len, MaxCapacityFn(k))
                hdrp == GetHeader(slabs_and_shift.slabs, slabs_and_shift.shift, c, k)
            IN  /\ r.ret = g
                /\ r.h = [hdrs EXCEPT ![hdrp] = [hdr EXCEPT !.end = hdr.end + g]]

\* A stopped CPU has room to grow and GrowOtherCache with len = 65536 grows
\* it by nothing.
GrowTruncatesLen ==
    \E x \in Control, c \in CPUs, k \in Classes :
        /\ c \in ctl[x].owned /\ c \in populated
        /\ Header(c, k).end - Header(c, k).begin < MaxCapacityFn(k)[slabs_and_shift.shift]
        /\ GrowOtherCache(hdrs, c, k, 65536, MaxCapacityFn(k)).ret = 0

\* Control thread x has stopped cpu and not yet started it again: StopCpu has
\* returned to it, or it is inside the scoped stop of InitCpu or Drain.
Held(x, cpu) ==
    \/ cpu \in ctl[x].owned
    \/ ctl[x].cpu = cpu /\ ctl[x].pc \in {"body", "scoped_start"}

\* The headers and the element slots of each CPU, in every slab.
CpuHeaders ==
    [cpu \in CPUs |->
        { GetHeader(r.slabs, r.shift, cpu, k) : r \in Regions, k \in Classes }]

CpuSlots ==
    [cpu \in CPUs |->
        UNION { { SlotAt(CpuMemoryStart(r.slabs, r.shift, cpu), i) :
                    i \in NumClasses .. (SlotsPerCpu(r.shift) - 1) } : r \in Regions }]

\* This step changes no header and no slot of cpu.
CpuUnchanged(cpu) ==
    /\ \A a \in CpuHeaders[cpu] : hdrs'[a] = hdrs[a]
    /\ \A a \in CpuSlots[cpu] : slots'[a] = slots[a]

\* C1. Stop exclusion: from the return of StopCpu(c) until StartCpu(c) no step
\* of a fast-path thread changes a header or slot of c; a thread inside a push
\* or pop on c neither enters the commit section nor returns (it observes
\* neither full nor empty), and the one that checks stopped_[c] in
\* CacheCpuSlabSlow gets "stopped": its cached word is cleared and it retries.
StopExclusion ==
    [][FastPathStep =>
        \A c \in CPUs :
            (\E x \in Control : Held(x, c)) =>
                /\ CpuUnchanged(c)
                /\ \A t \in Threads :
                      (th[t].cpu = c /\ th[t].pc # "idle") =>
                          /\ th'[t].pc \notin {"idle", "commit"}
                          /\ (th[t].pc = "slow_stopped" /\ th[t].lcpu = c
                                /\ th'[t].pc # "slow_stopped") =>
                                 (th'[t].pc = "start" /\ ~Cached(th'[t]))]_vars

\* A push on a stopped CPU whose LIFO has room is about to check stopped_.
StopExclusionWitness ==
    \E c \in CPUs, t \in Threads :
        /\ \E x \in Control : Held(x, c)
        /\ th[t].cpu = c /\ th[t].lcpu = c
        /\ th[t].pc = "slow_stopped" /\ th[t].kind = "push"
        /\ Header(c, th[t].k).current < Header(c, th[t].k).end

\* C3. Exclusive mutation: no CPU is stopped and held by two control threads
\* at once, so that at most one of them mutates its slab.
ExclusiveMutation ==
    \A c \in CPUs : Cardinality({ x \in Control : Held(x, c) }) <= 1

\* C9. Per-CPU isolation: a fast-path operation that returns on one CPU
\* changes no header and no slot of any other CPU, and its result is that of
\* the same operation on a sequential stack holding its own CPU's LIFO.
PerCpuIsolation ==
    [][FastPathStep =>
        \A t \in Threads :
            Completes(t) =>
                /\ \A c1 \in CPUs \ {th[t].cpu} : CpuUnchanged(c1)
                /\ CompletesAsSequential(t)]_vars

\* Two threads are inside fast-path operations on two initialised CPUs, one
\* of them before its commit.
PerCpuIsolationWitness ==
    \E t1 \in Threads, t2 \in Threads :
        /\ th[t1].cpu # th[t2].cpu
        /\ {th[t1].cpu, th[t2].cpu} \subseteq populated
        /\ th[t1].pc = "commit"
        /\ th[t2].pc = "start" /\ Cached(th[t2])

\* Two control threads have both returned from StopCpu on an initialised CPU.
ExclusiveMutationBroken ==
    \E c \in populated : \A x \in Control : c \in ctl[x].owned

\* The live positions of slab r that hold pointer p.
ResidentIn(r, p) ==
    UNION { { <<c, k, i>> :
                i \in { j \in HeaderIn(r, c, k).begin .. (HeaderIn(r, c, k).current - 1) :
                          slots[SlotAt(CpuMemoryStart(r.slabs, r.shift, c), j)] = p } } :
            c \in CPUs, k \in Classes }

\* The pushes in progress that carry pointer p.
InFlight(p) == { t \in Threads : th[t].ptr = p }

\* No ResizeSlabs is between its entry and the end of its drain loop.
ResizeSettled ==
    \A x \in Control : ctl[x].op = "ResizeSlabs" => ctl[x].pc = "rs_start"

\* C2. Resize linearisability: once ResizeSlabs has drained the old slab, and
\* when it returns, every pointer is in exactly one place: with the
\* application, in a push in progress, resident in the published slab, or in
\* the central free list (where drain_handler delivers); no pointer stays
\* behind in a slab that is not the published one.
ResizeLinearisable ==
    ResizeSettled =>
        \A p \in Ptrs :
            /\ central[p] + Cardinality({p} \cap app) + Cardinality(InFlight(p))
                 + Cardinality(ResidentIn(slabs_and_shift, p)) = 1
            /\ \A r \in Regions \ {slabs_and_shift} : ResidentIn(r, p) = {}

\* ResizeSlabs is about to return and drain_handler was handed a pointer
\* from the old slab.
ResizeLinearisableWitness ==
    \E x \in Control :
        /\ ctl[x].op = "ResizeSlabs" /\ ctl[x].pc = "rs_start"
        /\ ctl[x].cpu = NumCPUs - 1
        /\ \E i \in 1 .. Len(handler), p \in Ptrs :
              /\ handler[i].size = 1 /\ handler[i].items = <<p>>
              /\ central[p] = 1

\* C4. No stale slab: a thread that is on the fast path, or between two
\* operations, with the cached bit set holds the start of its CPU in the
\* published (base, shift); so CacheCpuSlabSlow never returns with, and no
\* operation commits through, a pair that ResizeSlabs has replaced.
NoStaleSlab ==
    \A t \in Threads :
        (th[t].pc \in {"idle", "start", "commit"} /\ Cached(th[t])) =>
            th[t].tcmalloc_slabs =
                CpuMemoryStart(slabs_and_shift.slabs, slabs_and_shift.shift, th[t].cpu)
                    + TCMALLOC_CACHED_SLABS_MASK

\* A thread loaded slabs_and_shift_, two resizes brought the same value back,
\* and the thread is at its second load with its word cached.
NoStaleSlabWitness ==
    \E t \in Threads :
        /\ th[t].pc = "slow_recheck" /\ Cached(th[t])
        /\ th[t].lss = slabs_and_shift
        /\ gen = th[t].lgen + 2

\* C11. ShrinkOtherCache on a stopped CPU with header (b, cur, e), for every
\* len: if e - cur < len and cur # b, exactly p = min(len - (e - cur), cur - b)
\* elements, the slots cur-p .. cur-1, go to shrink_handler in one call and
\* current becomes cur - p, otherwise the handler is not called; then end is
\* reduced by s = min(len, e - current), s is returned and begin is unchanged.
ShrinkPopsAndShrinksByLen ==
    \A x \in Control, c \in CPUs, k \in Classes, len \in Lens :
        (c \in ctl[x].owned /\ c \in populated) =>
            LET hdr == Header(c, k)
                start == CpuMemoryStart(slabs_and_shift.slabs, slabs_and_shift.shift, c)
                hdrp == GetHeader(slabs_and_shift.slabs, slabs_and_shift.shift, c, k)
                unused == hdr.end - hdr.current
                pops == unused < len /\ hdr.current # hdr.begin
                p == IF pops THEN Min(len - unused, hdr.current - hdr.begin) ELSE 0
                cur1 == hdr.current - p
                sh == Min(len, hdr.end - cur1)
                r == ShrinkOtherCache(hdrs, slots, c, k, len)
            IN  /\ r.called = pops
                /\ pops => /\ r.pop = p
                           /\ r.items = [i \in 1 .. p |-> slots[SlotAt(start, cur1 + i - 1)]]
                /\ r.ret = sh
                /\ r.h = [hdrs EXCEPT ![hdrp] =
                            [begin |-> hdr.begin, current |-> cur1, end |-> hdr.end - sh]]

\* A stopped CPU holds a pointer in a full LIFO and ShrinkOtherCache with
\* len = 65536 calls the handler with no element and shrinks by nothing.
ShrinkTruncatesLen ==
    \E x \in Control, c \in CPUs, k \in Classes :
        /\ c \in ctl[x].owned /\ c \in populated
        /\ Header(c, k).begin < Header(c, k).current
        /\ Header(c, k).current = Header(c, k).end
        /\ ShrinkOtherCache(hdrs, slots, c, k, 65536).called
        /\ ShrinkOtherCache(hdrs, slots, c, k, 65536).pop = 0
        /\ ShrinkOtherCache(hdrs, slots, c, k, 65536).ret = 0

\* Control thread x is inside the scoped stop of Drain, before DrainCpu.
DrainEntered(x) == ctl[x].pc = "body" /\ ctl[x].op = "Drain"

\* Control thread x has run DrainCpu and not yet restarted the CPU.
DrainDone(x) == ctl[x].pc = "scoped_start" /\ ctl[x].op = "Drain"

\* C12. Drain(c, handler) calls the handler exactly once per class k in
\* 1 .. num_classes - 1, in increasing k, with the address of slot begin,
\* size = current - begin and cap = end - begin as they were on entry; on
\* return every class of c has current = end = begin and begin is unchanged.
DrainCallsEveryClassOnce ==
    [][\A x \in Control :
         (DrainEntered(x) /\ DrainDone(x)') =>
            LET c == ctl[x].cpu
                start == CpuMemoryStart(slabs_and_shift.slabs, slabs_and_shift.shift, c)
            IN  /\ Len(handler') = NumClasses - 1
                /\ \A k \in Classes :
                     /\ handler'[k].cpu = c
                     /\ handler'[k].size_class = k
                     /\ handler'[k].batch = SlotAt(start, Header(c, k).begin)
                     /\ handler'[k].size = Header(c, k).current - Header(c, k).begin
                     /\ handler'[k].cap = Header(c, k).end - Header(c, k).begin
                     /\ handler'[k].items =
                          [i \in 1 .. (Header(c, k).current - Header(c, k).begin) |->
                             slots[SlotAt(start, Header(c, k).begin + i - 1)]]
                     /\ Header(c, k)'.begin = Header(c, k).begin
                     /\ Header(c, k)'.current = Header(c, k).begin
                     /\ Header(c, k)'.end = Header(c, k).begin]_vars

\* A Drain has handed over two pointers of class 1 of a CPU whose class 2 had
\* capacity too, and has emptied both.
DrainCallsEveryClassOnceWitness ==
    \E x \in Control :
        /\ DrainDone(x)
        /\ Len(handler) = NumClasses - 1
        /\ handler[1].size = 2 /\ handler[1].cap = 2
        /\ handler[2].size = 0 /\ handler[2].cap = 1
        /\ \A k \in Classes :
             /\ Header(ctl[x].cpu, k).current = Header(ctl[x].cpu, k).begin
             /\ Header(ctl[x].cpu, k).end = Header(ctl[x].cpu, k).begin

\* Every class of cpu is empty.
EveryClassEmpty(cpu) ==
    \A k \in Classes : Header(cpu, k).current = Header(cpu, k).begin

\* The headers of cpu in the published slab.
HeadersOf(cpu) == [k \in Classes |-> Header(cpu, k)]

\* C13 as stated. Drain(c) on a CPU whose every class has current = begin
\* delivers only size-0 batches to the handler and leaves every header of c
\* unchanged.
EmptyDrainLeavesHeaders ==
    [][\A x \in Control :
         (DrainEntered(x) /\ DrainDone(x)' /\ EveryClassEmpty(ctl[x].cpu)) =>
            /\ \A k \in Classes : handler'[k].size = 0
            /\ HeadersOf(ctl[x].cpu)' = HeadersOf(ctl[x].cpu)]_vars

\* C13, amended. Drain(c) on a CPU whose every class has current = begin
\* delivers only size-0 batches to the handler, hands over no pointer, and
\* leaves begin and current of every header of c unchanged; end is reset to
\* begin, so a header is unchanged exactly when its end was begin already.
EmptyDrainResetsEnd ==
    [][\A x \in Control :
         (DrainEntered(x) /\ DrainDone(x)' /\ EveryClassEmpty(ctl[x].cpu)) =>
            /\ \A k \in Classes : handler'[k].size = 0 /\ handler'[k].items = <<>>
            /\ central' = central
            /\ \A k \in Classes :
                 LET hdr == Header(ctl[x].cpu, k)
                 IN  /\ Header(ctl[x].cpu, k)' =
                          [begin |-> hdr.begin, current |-> hdr.current, end |-> hdr.begin]
                     /\ (Header(ctl[x].cpu, k)' = hdr) <=> (hdr.end = hdr.begin)]_vars

\* A Drain has run on a CPU whose classes were all empty and one of which had
\* capacity: its handler got size 0 and cap 2, and end is back at begin.
EmptyDrainResetsEndWitness ==
    \E x \in Control :
        /\ DrainDone(x)
        /\ \A k \in Classes : handler[k].size = 0
        /\ handler[1].cap = 2
        /\ Header(ctl[x].cpu, 1).end = Header(ctl[x].cpu, 1).begin

\* Address of the slot before the first slot of class size_class of cpu.
SentinelSlot(cpu, size_class) ==
    SlotAt(CpuMemoryStart(slabs_and_shift.slabs, slabs_and_shift.shift, cpu),
           Header(cpu, size_class).begin - 1)

\* C14. After InitCpu(c), for every class with non-zero capacity the slot at
\* begin - 1 holds its own address, and this stays so in every state reached
\* by push, pop, GrowOtherCache, ShrinkOtherCache and Drain on c.
SentinelSafety ==
    \A c \in populated, k \in Classes :
        Capacity(slabs_and_shift.shift)[k] # 0 =>
            slots[SentinelSlot(c, k)] = SentinelSlot(c, k)

\* Class 1 of an initialised CPU has been grown to its capacity and filled by
\* pushes, so that its last pointer lies next to the sentinel of class 2.
SentinelSafetyWitness ==
    \E c \in populated :
        /\ Header(c, 1).end = Header(c, 1).begin + 2
        /\ Header(c, 1).current = Header(c, 1).end
        /\ Header(c, 2).begin - 1 = Header(c, 1).end
        /\ slots[SentinelSlot(c, 2) - PtrBytes] \in Ptrs
        /\ slots[SentinelSlot(c, 2)] = SentinelSlot(c, 2)

\* Control thread x is inside ResizeSlabs.
Resizing(x) == ctl[x].op = "ResizeSlabs"

\* Every class of cpu in slab r has been laid out by InitCpuImpl.
InitialisedIn(r, cpu) ==
    \A k \in Classes :
        /\ HeaderIn(r, cpu, k).begin >= NumClasses
        /\ slots[SlotAt(CpuMemoryStart(r.slabs, r.shift, cpu), HeaderIn(r, cpu, k).begin - 1)]
             = SlotAt(CpuMemoryStart(r.slabs, r.shift, cpu), HeaderIn(r, cpu, k).begin - 1)

\* Every class of cpu in slab r is as DrainCpu leaves it.
DrainedIn(r, cpu) ==
    \A k \in Classes :
        /\ HeaderIn(r, cpu, k).current = HeaderIn(r, cpu, k).begin
        /\ HeaderIn(r, cpu, k).end = HeaderIn(r, cpu, k).begin

\* No thread is inside a critical section: what the all-CPU fence leaves
\* behind while every CPU is stopped.
NoneInFlight ==
    \A t \in Threads : th[t].pc # "commit"

\* Thread x issues the all-CPU fence of ResizeSlabs in this step.
FenceIssued(x) == ctl[x].pc = "rs_fence" /\ ctl'[x].pc # "rs_fence"

\* A handler call of a drain of the slab r.
CallOn(call, r) ==
    /\ call.batch >= r.slabs
    /\ call.batch < r.slabs + NumCPUs * Pow2(r.shift)

\* C15. In every execution of ResizeSlabs: every stopped flag is set, and
\* every populated CPU is initialised in the new slab, before the all-CPU
\* fence is issued; the fence has completed before the new (base, shift) is
\* published; the publication precedes every drain of the old slab; and no
\* stop flag is cleared before the last drain has finished.
ResizePhaseOrder ==
    [][\A x \in Control : Resizing(x) =>
          /\ FenceIssued(x) =>
                /\ \A c \in CPUs : stopped[c]
                /\ \A c \in populated : InitialisedIn(ctl[x].new, c)
                /\ slabs_and_shift = ctl[x].old
                /\ handler = <<>>
          /\ slabs_and_shift' # slabs_and_shift =>
                /\ slabs_and_shift' = ctl[x].new
                /\ \A c \in CPUs : stopped[c]
                /\ NoneInFlight
                /\ handler = <<>>
          /\ handler' # handler /\ handler' # <<>> =>
                /\ slabs_and_shift = ctl[x].new
                /\ \A c \in CPUs : stopped[c]
                /\ \A i \in (Len(handler) + 1) .. Len(handler') :
                       CallOn(handler'[i], ctl[x].old)
          /\ (\E c \in CPUs : stopped[c] /\ ~stopped'[c]) =>
                /\ slabs_and_shift = ctl[x].new
                /\ Len(handler) = Cardinality(populated) * (NumClasses - 1)
                /\ \A c \in populated : DrainedIn(ctl[x].old, c)]_vars

\* A ResizeSlabs has drained a pointer from the old slab of a populated CPU
\* and has cleared the first stop flag, the new pair being published.
ResizePhaseOrderWitness ==
    \E x \in Control :
        /\ Resizing(x)
        /\ ctl[x].pc = "rs_start" /\ ctl[x].cpu = 1
        /\ ~stopped[0] /\ stopped[1]
        /\ slabs_and_shift = ctl[x].new
        /\ 0 \in populated
        /\ \E i \in 1 .. Len(handler) : handler[i].size > 0

\* The first call of Init runs in this step.
FirstInitRuns == init_call.pc = "call" /\ init_call.calls = 1 /\ init_call'.pc # "call"

\* Bytes of the headers and of capacity(j) + 1 pointers for every class j
\* of ks.
RECURSIVE BytesFor(_, _)
BytesFor(capacity, ks) ==
    IF ks = {} THEN 0
    ELSE LET j == CHOOSE j \in ks : TRUE
         IN  (capacity[j] + 1) * PtrBytes + BytesFor(capacity, ks \ {j})

\* capacity(k) does not fit in 16 bits.
TooWide(capacity, k) == capacity[k] >= 65536

\* Init stored (base, shift) and every stopped flag is false.
InitStored ==
    /\ slabs_and_shift' = [slabs |-> init_call.slabs, shift |-> init_call.shift]
    /\ \A c \in CPUs : ~stopped'[c]

\* C16 as stated. Init ends in "per-CPU memory exceeded" exactly when
\* num_classes * sizeof(Header) plus the sum of (capacity(k) + 1) *
\* sizeof(pointer) over the classes exceeds 2^shift, and in a fatal check when
\* some capacity(k) does not fit in 16 bits; otherwise it stores (base, shift)
\* and leaves every stopped flag false.
InitFailsOnSumOverClasses ==
    [][FirstInitRuns =>
         LET capacity == init_call.capacity
             need == init_call.num_classes * HeaderBytes + BytesFor(capacity, Classes)
             exceeded == need > Pow2(init_call.shift)
             wide == \E k \in Classes : TooWide(capacity, k)
         IN  /\ (init_call'.pc = "Crash") <=> exceeded
             /\ wide => init_call'.pc \in {"TC_CHECK_EQ", "Crash"}
             /\ (~exceeded /\ ~wide) => (init_call'.pc = "returned" /\ InitStored)]_vars

\* Class k is the first at which Init stops: no class before it is too wide
\* or takes the bytes counted past 2^shift.
Exceeds(capacity, shift, n, k) ==
    /\ capacity[k] # 0
    /\ n * HeaderBytes
         + BytesFor(capacity, { j \in Classes : j <= k /\ capacity[j] # 0 })
       > Pow2(shift)

FirstStop(capacity, shift, n, k) ==
    \A j \in Classes :
        j < k => ~TooWide(capacity, j) /\ ~Exceeds(capacity, shift, n, j)

\* C16, amended. Init goes through the classes in increasing order and ends
\* at the first class k whose capacity does not fit in 16 bits (a fatal
\* check) or, the capacity fitting and being non-zero, at which
\* num_classes * sizeof(Header) plus (capacity(j) + 1) * sizeof(pointer) over
\* the classes j <= k of non-zero capacity exceeds 2^shift ("per-CPU memory
\* exceeded"); when there is no such class it returns.  In each case
\* (base, shift) is stored and every stopped flag is false.
InitFailsAtFirstBadClass ==
    [][FirstInitRuns =>
         LET capacity == init_call.capacity
             shift == init_call.shift
             n == init_call.num_classes
             stops(k) == FirstStop(capacity, shift, n, k)
         IN  /\ (init_call'.pc = "TC_CHECK_EQ") <=>
                   \E k \in Classes : stops(k) /\ TooWide(capacity, k)
             /\ (init_call'.pc = "Crash") <=>
                   \E k \in Classes :
                       stops(k) /\ ~TooWide(capacity, k) /\ Exceeds(capacity, shift, n, k)
             /\ init_call'.pc \in {"TC_CHECK_EQ", "Crash", "returned"}
             /\ crashed' = (init_call'.pc # "returned")
             /\ InitStored]_vars

\* Init has returned for a capacity function with a class of capacity 0 for
\* which the sum over all the classes exceeds 2^shift, having set a stopped
\* flag that was not false before.
InitFailsAtFirstBadClassWitness ==
    /\ init_call.pc = "returned" /\ init_call.calls = 1
    /\ init_call.capacity[1] = 4 /\ init_call.capacity[2] = 0
    /\ init_call.shift = 6
    /\ init_call.num_classes * HeaderBytes + BytesFor(init_call.capacity, Classes)
         > Pow2(init_call.shift)
    /\ slabs_and_shift = [slabs |-> init_call.slabs, shift |-> init_call.shift]
    /\ \A c \in CPUs : ~stopped[c]

\* This step ends in the terminated state and has modified no header and no
\* slot.
EndsFatal == crashed' /\ hdrs' = hdrs /\ slots' = slots

\* C17. Precondition violations are fatal: StopCpu(c) when stopped[c] is
\* already true, a control operation (GrowOtherCache, ShrinkOtherCache,
\* StartCpu, InitCpuImpl) on a CPU whose stopped flag is false, the check of
\* ResizeSlabs on a CPU that is stopped, and a second Init each end in the
\* terminated state without modifying any header or slot.
PreconditionViolationsFatal ==
    [][/\ \A x \in Control, c \in CPUs :
            (stopped[c] /\ \E op \in {"StopCpu", "InitCpu", "Drain"} : StopCpuCheck(x, c, op))
                => EndsFatal
       /\ \A x \in Control :
            (ResizeSlabsCheck(x) /\ stopped[ctl[x].cpu]) => EndsFatal
       /\ (InitCall /\ num_classes_ # 0) => EndsFatal
       /\ \A x \in Control, c \in CPUs :
            (StartCpuAny(x, c) /\ ~stopped[c]) => EndsFatal
       /\ \A x \in Control, c \in CPUs, k \in Classes, len \in {1, 2} :
            (GrowOtherCacheAny(x, c, k, len) /\ ~stopped[c]) => EndsFatal
       /\ \A x \in Control, c \in CPUs, k \in Classes, len \in {1, 2} :
            (ShrinkOtherCacheAny(x, c, k, len) /\ ~stopped[c]) => EndsFatal
       /\ \A c \in CPUs :
            ~stopped[c] =>
               LET r == InitCpuImpl(hdrs, slots, stopped, slabs_and_shift.slabs,
                                    slabs_and_shift.shift, c,
                                    Capacity(slabs_and_shift.shift))
               IN  r.crash /\ r.h = hdrs /\ r.s = slots]_vars

\* In a build with NDEBUG set, GrowOtherCache called on a populated CPU that
\* is not stopped returns after it has moved end of the header.
AssertCompiledOut ==
    \E c \in populated, k \in Classes :
        LET r == GrowOtherCacheAsserted(hdrs, stopped, init_call.ndebug, c, k, 2,
                                        MaxCapacityFn(k))
        IN  /\ init_call.ndebug
            /\ ~crashed
            /\ ~stopped[c]
            /\ \A x \in Control : ctl[x].pc = "idle"
            /\ ~r.crash
            /\ r.h # hdrs

\* The first n elements of sequence s.
Take(s, n) == [i \in 1 .. n |-> s[i]]

\* Where the first '\0' of the buffer of p is.
NulAt(p) == CHOOSE i \in 1 .. p.length : p.mem[i] = Nul /\ \A j \in 1 .. (i - 1) : p.mem[j] # Nul

\* The string the buffer of p holds.
Contents(p) == Take(p.mem, NulAt(p) - 1)

\* The buffer of p is terminated within its length, holds the requested
\* characters that fit in length - 1, the byte after it is not written, and
\* SpaceRequired() is the number of characters requested.
PrinterBounded(p) ==
    /\ \E i \in 1 .. p.length : p.mem[i] = Nul
    /\ Contents(p) = Take(p.asked, Min(Len(p.asked), p.length - 1))
    /\ p.mem[p.length + 1] = Unwritten
    /\ p.required = Len(p.asked)

\* C18. For a Printer over a buffer of length L, after any sequence of printf
\* calls the buffer holds exactly the output that fitted and nothing is
\* written past L; a printf issued when the buffer is already full leaves
\* the buffer contents unchanged; and SpaceRequired() equals the number of
\* characters requested by all printf calls so far, including those that did
\* not fit.
PrinterBoundedOutput ==
    [][/\ PrinterBounded(printer)
       /\ PrinterBounded(printer')
       /\ Len(Contents(printer)) = printer.length - 1 => printer'.mem = printer.mem]_vars

\* A Printer over a buffer of length 4 was filled by one printf of three
\* characters and then asked for three more: the buffer holds the first three
\* and SpaceRequired() is 6.
PrinterBoundedOutputWitness ==
    /\ printer.length = 4
    /\ printer.asked = <<"d", "e", "f", "d", "e", "f">>
    /\ Contents(printer) = <<"d", "e", "f">>
    /\ printer.required = printer.length - 1 + 3

\* Control thread x returns from the operation op in this step.
Returns(x, op) == ctl[x].op = op /\ ctl[x].pc # "idle" /\ ctl'[x].pc = "idle"

\* C19. When InitCpu(c) or Drain(c) returns, stopped[c] is false and the
\* flags of the other CPUs are as they were throughout the operation; when
\* ResizeSlabs returns, stopped[c] is false for every CPU and slabs_and_shift
\* holds the new pair.
StopFlagsReleased ==
    [][\A x \in Control :
         /\ (Returns(x, "InitCpu") \/ Returns(x, "Drain")) => ~stopped'[ctl[x].cpu]
         /\ ctl[x].op \in {"InitCpu", "Drain"} =>
               \A c \in CPUs \ {ctl[x].cpu} : stopped'[c] = stopped[c]
         /\ Returns(x, "ResizeSlabs") =>
               /\ \A c \in CPUs : ~stopped'[c]
               /\ slabs_and_shift' = ctl[x].new
               /\ slabs_and_shift' # ctl[x].old]_vars

\* After a ResizeSlabs has returned, CPU 1 was stopped and InitCpu(0) has
\* run and returned: CPU 0 is laid out in the new slab and not stopped, CPU 1
\* is still stopped.
StopFlagsReleasedWitness ==
    \E x \in Control :
        /\ gen = 1
        /\ slabs_and_shift # InitialRegion
        /\ ctl[x].pc = "idle" /\ ctl[x].owned = {1}
        /\ 0 \in populated
        /\ Header(0, 1).begin # 0
        /\ ~stopped[0] /\ stopped[1]

\* Thread t is inside a push or pop.
Started(t) == th[t].pc # "idle"

\* Every stop of a CPU is followed by the clearing of its flag.
EveryStopCleared == \A c \in CPUs : []<>(~stopped[c])

\* From some point on no CPU is stopped: the stops do not recur forever.
StopsCease == <>[](\A c \in CPUs : ~stopped[c])

\* C20 as stated. Under fair scheduling, if every stop of a CPU is eventually
\* followed by the clearing of its stop flag and migrations and resizes do
\* not recur forever, a thread that started a push or pop eventually
\* completes it.
ProgressIfStopsCleared ==
    ([](~crashed) /\ EveryStopCleared) => (Started(1) ~> ~Started(1))

\* C20, amended. Under fair scheduling, if the stops of the CPUs, the
\* migrations and the resizes do not recur forever and the last stop is
\* followed by the clearing of its flag, a thread that started a push or pop
\* eventually completes it; so a thread held back by StopCpu(0) resumes
\* after the StartCpu(0) that is not followed by another stop.
ProgressIfStopsCease ==
    ([](~crashed) /\ StopsCease) => (Started(1) ~> ~Started(1))

\* Thread 1 has started a push on CPU 0 and has been sent back by
\* CacheCpuSlab because the control thread holds CPU 0 stopped.
ProgressIfStopsCeaseWitness ==
    /\ th[1].kind = "push" /\ th[1].pc = "start"
    /\ th[1].cpu = 0 /\ th[1].lcpu = 0
    /\ ~Cached(th[1])
    /\ stopped[0] /\ 0 \in ctl[1].owned
    /\ 0 \in populated
    /\ Header(0, 1).current < Header(0, 1).end

\* The slab memory Init was given, zero-filled: headers and slots by address.
FreshHeaders(a) ==
    [x \in a.slabs .. (a.slabs + (NumCPUs + 1) * Pow2(a.shift)) |-> ZeroHeader]

FreshSlots(a) ==
    [x \in a.slabs .. (a.slabs + (NumCPUs + 1) * Pow2(a.shift)) |-> 0]

\* InitCpuImpl on cpu of the slab of the call a of Init, the CPU being stopped.
InitCpuAfterInit(a, cpu) ==
    InitCpuImpl(FreshHeaders(a), FreshSlots(a), [c \in CPUs |-> TRUE],
                a.slabs, a.shift, cpu, a.capacity)

\* bytes_used_on_curr_slab after the last class, read off the headers h that
\* InitCpuImpl stored: the end of the slots of the last class.
BytesLaidOut(h, a, cpu) ==
    (h[GetHeader(a.slabs, a.shift, cpu, a.num_classes - 1)].begin
       + a.capacity[a.num_classes - 1]) * PtrBytes

\* C21. For every num_classes, capacity function and shift that Init accepts
\* without crashing, InitCpu with the same capacity function does not crash
\* on any CPU, and the number of bytes it lays out equals the byte count Init
\* computed.
InitCpuAgreesWithInit ==
    init_call.pc = "returned" =>
        \A c \in CPUs :
            /\ ~InitCpuAfterInit(init_call, c).crash
            /\ BytesLaidOut(InitCpuAfterInit(init_call, c).h, init_call, c)
                 = InitConsumedBytes(init_call.num_classes, init_call.capacity)

\* Init has returned for a slab smaller than its headers, every capacity
\* being 0, and InitCpuImpl on CPU 0 of that slab ends in Crash().
InitAcceptsWhatInitCpuRejects ==
    /\ init_call.pc = "returned"
    /\ init_call.shift = 4
    /\ \A k \in Classes : init_call.capacity[k] = 0
    /\ init_call.num_classes * HeaderBytes > Pow2(init_call.shift)
    /\ InitCpuAfterInit(init_call, 0).crash

\* The number of places pointer p is in: the central free list (a handler or
\* a push that returned false delivered it there), the application (a pop
\* returned it), a push in progress, or a live position of the slab.
Accounted(p) ==
    central[p] + Cardinality({p} \cap app) + Cardinality(InFlight(p))
      + Cardinality(ResidentIn(slabs_and_shift, p))

\* Every pointer is in exactly one place, and no handler was handed a value
\* that is no pointer.
PointersAccounted ==
    /\ \A p \in Ptrs : Accounted(p) = 1
    /\ central[Null] = 0

\* A step of GrowOtherCache or ShrinkOtherCache that changes a header.
ResizesCache == th' = th /\ ctl' = ctl /\ app' = app /\ hdrs' # hdrs

\* The pointers of (cpu, size_class) that this step removes from the top of
\* the LIFO.
Removed(cpu, size_class) ==
    LET before == Lifo(hdrs, slots, cpu, size_class)
        after == Lifo(hdrs', slots', cpu, size_class)
    IN  SubSeq(before, Len(after) + 1, Len(before))

\* Every LIFO after the step is the bottom part of the LIFO before it, in
\* the same order.
KeepsOrder ==
    \A c \in CPUs, k \in Classes :
        LET before == Lifo(hdrs, slots, c, k)
            after == Lifo(hdrs', slots', c, k)
        IN  /\ Len(after) <= Len(before)
            /\ after = SubSeq(before, 1, Len(after))

\* The pointers the step removes went to the handler, each once, and nothing
\* else did.
DeliversRemoved ==
    central' = Deliver(central,
                       Flatten([i \in 1 .. (NumCPUs * (NumClasses - 1)) |->
                                  Removed((i - 1) \div (NumClasses - 1),
                                          ((i - 1) % (NumClasses - 1)) + 1)]))

\* The step in which control thread x runs the DrainCpu of its Drain.
DrainRuns(x) ==
    /\ ctl[x].op = "Drain" /\ ctl[x].pc = "body"
    /\ ctl'[x].pc = "scoped_start"

\* C22. Pointer conservation: across any interleaving of push, pop, Drain,
\* GrowOtherCache and ShrinkOtherCache on one CPU every pointer is accounted
\* for exactly once: in its class's LIFO between begin and current, returned
\* by a pop, in a push in progress, or delivered once to a handler; none is
\* lost or delivered twice.  ShrinkOtherCache and GrowOtherCache leave the
\* remaining pointers of every LIFO in their order, and Drain empties every
\* LIFO of its CPU, delivering each of its pointers once.
PointerConservation ==
    /\ []PointersAccounted
    /\ [][/\ ResizesCache => KeepsOrder /\ DeliversRemoved
          /\ \A x \in Control :
                DrainRuns(x) =>
                    /\ KeepsOrder /\ DeliversRemoved
                    /\ \A k \in Classes : Lifo(hdrs', slots', ctl[x].cpu, k) = <<>>]_vars

\* Drain has handed one pointer of a LIFO to drain_handler while the other
\* pointer is with the application.
PointerConservationWitness ==
    \E x \in Control, p \in Ptrs, q \in Ptrs :
        /\ q # p
        /\ ctl[x].op = "Drain" /\ ctl[x].pc = "scoped_start"
        /\ \E i \in 1 .. Len(handler) : handler[i].items = <<p>>
        /\ central[p] = 1
        /\ q \in app

=============================================================================
